---- MODULE Spec2Model ----
(***************************************************************************)
(* Model of bbb_model.py (the scoring pipeline) and of the caller in       *)
(* app.py that builds a BBBInputParams record and calls                    *)
(* compute_bbb_probability.                                                *)
(*                                                                         *)
(* Python floats are IEEE-754 binary floating-point numbers (precision 53, *)
(* largest exponent 1023).  The model keeps the format and scales its two  *)
(* parameters down: precision Prec, largest exponent Emax, smallest normal *)
(* exponent 1 - Emax, gradual underflow, round-to-nearest-even, overflow   *)
(* to infinity.  A float is held as a whole number of quanta (the value of *)
(* the smallest subnormal), so that order on floats is order on integers.  *)
(* Signed zero and NaN are not modelled: no operation of bbb_model.py      *)
(* distinguishes -0.0 from 0.0, and NaN cannot arise from finite inputs.   *)
(***************************************************************************)
EXTENDS Integers, Sequences, FiniteSets, TLC

Prec == 5
Emax == 8
FBits == 12
MaxEdits == 2

VARIABLES params, result, first, edits, fn
vars == <<params, result, first, edits, fn>>

\* ---------------------------------------------------------------------
\* The floating-point format
\* ---------------------------------------------------------------------
RECURSIVE Pow2R(_)
Pow2R(k) == IF k <= 0 THEN 1 ELSE 2 * Pow2R(k - 1)
Pow2Table == [k \in 0..30 |-> Pow2R(k)]
\* 2^k, and 1 for a negative k
Pow2(k) == IF k <= 0 THEN 1 ELSE Pow2Table[k]

\* the number of bits of n (0 for n <= 0), by halving the word
BitLen2(n) == IF n <= 0 THEN 0 ELSE IF n = 1 THEN 1 ELSE 2
BitLen4(n) == IF n < 4 THEN BitLen2(n) ELSE 2 + BitLen2(n \div 4)
BitLen8(n) == IF n < 16 THEN BitLen4(n) ELSE 4 + BitLen4(n \div 16)
BitLen16(n) == IF n < 256 THEN BitLen8(n) ELSE 8 + BitLen8(n \div 256)
BitLen(n) == IF n < 65536 THEN BitLen16(n) ELSE 16 + BitLen16(n \div 65536)

\* the quantum is 2^-QExp
QExp == Emax + Prec - 2
\* 1.0 in quanta
One == Pow2(QExp)
\* +infinity: the first power of two past the largest finite float
Inf == Pow2(Prec + 2 * Emax - 1)
MaxFloat == (Pow2(Prec) - 1) * Pow2(2 * Emax - 1)
\* the outcome of an operation that raised OverflowError ("math range error")
OverflowError == 2 * Inf
\* the outcome of an operation that raised ValueError ("math domain error")
ValueError == 2 * Inf + 1

Abs(n) == IF n < 0 THEN -n ELSE n
Sgn(n) == IF n < 0 THEN -1 ELSE 1
Max2(a, b) == IF b > a THEN b ELSE a
Min2(a, b) == IF b < a THEN b ELSE a

PosFloats == { m * Pow2(s) : m \in 1..(Pow2(Prec) - 1), s \in 0..(2 * Emax - 1) }
Floats == PosFloats \cup { -n : n \in PosFloats } \cup {0}

\* RoundQ(num, den): the nearest float (ties to even) to the non-negative
\* rational num/den quanta.  step is the spacing of the floats around it.
Clip(n) == IF n >= Inf THEN Inf ELSE n

RoundTie(q0, r, d, step) ==
  Clip((IF 2 * r > d \/ (2 * r = d /\ q0 % 2 = 1) THEN q0 + 1 ELSE q0) * step)

RoundStep(num, d, step) == RoundTie(num \div d, num % d, d, step)

RoundSpaced(num, den, step) == RoundStep(num, den * step, step)

RoundQ(num, den) == RoundSpaced(num, den, Pow2(BitLen(num \div den) - Prec))

\* the nearest float to M * 2^E quanta, M >= 0
Round(M, E) ==
  IF M = 0 THEN 0
  ELSE IF E >= 0
       THEN IF BitLen(M) + E > Prec + 2 * Emax THEN Inf
            ELSE RoundQ(M * Pow2(E), 1)
       ELSE IF -E > BitLen(M) + 1 THEN 0
            ELSE RoundQ(M, Pow2(-E))

\* the number of trailing zero bits of n >= 0 (0 for n = 0), by halving the word
TrailingZeros1(n) == IF n % 2 = 0 THEN 1 ELSE 0
TrailingZeros2(n) == IF n % 4 = 0 THEN 2 + TrailingZeros1(n \div 4) ELSE TrailingZeros1(n)
TrailingZeros4(n) == IF n % 16 = 0 THEN 4 + TrailingZeros2(n \div 16) ELSE TrailingZeros2(n)
TrailingZeros8(n) == IF n % 256 = 0 THEN 8 + TrailingZeros4(n \div 256) ELSE TrailingZeros4(n)
TrailingZeros(n) ==
  IF n = 0 THEN 0
  ELSE IF n % 65536 = 0 THEN 16 + TrailingZeros8(n \div 65536) ELSE TrailingZeros8(n)

Mant(n) == n \div Pow2(TrailingZeros(n))

\* float addition; the sum of two opposite infinities (NaN) is never formed
FAdd(a, b) ==
  IF Abs(a) = Inf THEN a
  ELSE IF Abs(b) = Inf THEN b
  ELSE Sgn(a + b) * RoundQ(Abs(a + b), 1)

FNeg(a) == -a

FSub(a, b) == FAdd(a, FNeg(b))

FMul(a, b) ==
  IF a = 0 \/ b = 0 THEN 0
  ELSE IF Abs(a) = Inf \/ Abs(b) = Inf THEN Sgn(a) * Sgn(b) * Inf
  ELSE Sgn(a) * Sgn(b) *
       Round(Mant(Abs(a)) * Mant(Abs(b)),
             TrailingZeros(Abs(a)) + TrailingZeros(Abs(b)) - QExp)

\* the nearest float to (ma / mb) * 2^e quanta
RoundRatio(ma, mb, e) ==
  IF e >= 0
  THEN IF BitLen(ma) + e - BitLen(mb) > Prec + 2 * Emax THEN Inf
       ELSE RoundQ(ma * Pow2(e), mb)
  ELSE IF -e > Prec + 1 THEN 0
       ELSE RoundQ(ma, mb * Pow2(-e))

\* float division, b # 0
FDiv(a, b) ==
  IF a = 0 THEN 0
  ELSE IF Abs(b) = Inf THEN 0
  ELSE IF Abs(a) = Inf THEN Sgn(a) * Sgn(b) * Inf
  ELSE Sgn(a) * Sgn(b) *
       RoundRatio(Mant(Abs(a)), Mant(Abs(b)),
                  TrailingZeros(Abs(a)) - TrailingZeros(Abs(b)) + QExp)

\* a float literal num/den of the source, rounded as the parser rounds it
Lit(num, den) == Sgn(num) * RoundQ(Abs(num) * One, den)

\* ---------------------------------------------------------------------
\* The math library: exp, log10 and the float power operator.  They are
\* evaluated in fixed point with FBits fractional bits, which is much
\* finer than half a unit in the last place of the format, and the result
\* is rounded to the format.
\* ---------------------------------------------------------------------
FOne == Pow2(FBits)

\* e = 1/0! + 1/1! + 1/2! + ... in fixed point
RECURSIVE ESeries(_, _)
ESeries(term, k) == IF term = 0 THEN 0 ELSE term + ESeries(term \div k, k + 1)
EFix == ESeries(FOne, 1)

\* the fractional bits of log2(z), z in [1,2) in fixed point: square and compare
RECURSIVE Log2Frac(_, _)
RECURSIVE Log2Bit(_, _)
Log2Bit(z2, i) ==
  IF z2 >= 2 * FOne
  THEN Pow2(FBits - i) + Log2Frac(z2 \div 2, i + 1)
  ELSE Log2Frac(z2, i + 1)
Log2Frac(z, i) == IF i > FBits THEN 0 ELSE Log2Bit((z * z) \div FOne, i)

Log2E == FOne + Log2Frac(EFix \div 2, 1)
Log2Ten == 3 * FOne + Log2Frac((10 * FOne) \div 8, 1)

\* log2 of m * 2^e, m an odd mantissa, in fixed point
Log2Mant(e, m) ==
  (e + BitLen(m) - 1) * FOne + Log2Frac((m * FOne) \div Pow2(BitLen(m) - 1), 1)

\* log2 of the positive float n, in fixed point
Log2Of(n) == Log2Mant(TrailingZeros(n) - QExp, Mant(n))
Log2Table == [n \in PosFloats |-> Log2Of(n)]
Log2Fix(n) == Log2Table[n]

\* e^t for t in [0, ln 2), in fixed point: the Taylor series
RECURSIVE ExpSeries(_, _, _)
ExpSeries(t, term, k) ==
  IF term = 0 THEN 0 ELSE term + ExpSeries(t, ((term * t) \div FOne) \div k, k + 1)

\* a result past the largest float raises OverflowError
Raise(r) == IF r = Inf THEN OverflowError ELSE r

\* the float nearest to 2^(y / 2^FBits)
Exp2Round(y) ==
  Raise(Round(ExpSeries(((y % FOne) * FOne) \div Log2E, FOne, 1),
              (y \div FOne) - FBits + QExp))

\* math.exp(x): raises OverflowError when the result is out of range
ExpOf(x) ==
  IF x = Inf THEN Inf
  ELSE IF x = -Inf THEN 0
  ELSE IF x >= (Emax + 1) * One THEN OverflowError
  ELSE IF x <= -((QExp + 2) * One) THEN 0
  ELSE Exp2Round((x * Log2E) \div One)
ExpTable == [x \in Floats \cup {Inf, -Inf} |-> ExpOf(x)]
exp(x) == ExpTable[x]

Log10Of(l) ==
  Sgn(l) * Round((Abs(l) * FOne + Log2Ten \div 2) \div Log2Ten, QExp - FBits)

\* math.log10(x): raises ValueError unless x > 0
log10(x) ==
  IF x <= 0 THEN ValueError
  ELSE IF x = Inf THEN Inf
  ELSE Log10Of(Log2Fix(x))

SquareOf(x, r) == IF r = Inf /\ Abs(x) # Inf THEN OverflowError ELSE r

\* x ** 2: float.__pow__ raises OverflowError when a finite base overflows
PowSquare(x) == SquareOf(x, FMul(x, x))

\* 2^(l * c), l a fixed-point logarithm and c a float
PowOf(l, c) ==
  IF BitLen(Abs(l)) + BitLen(c) > 30
  THEN (IF l > 0 THEN OverflowError ELSE 0)
  ELSE Exp2Round((l * c) \div One)

\* x ** c for x >= 0 and a finite c > 0
Pow(x, c) ==
  IF x = 0 THEN 0
  ELSE IF x = Inf THEN Inf
  ELSE PowOf(Log2Fix(x), c)

\* ---------------------------------------------------------------------
\* bbb_model.py
\* ---------------------------------------------------------------------
RawFields == {"size_nm", "apoe3_affinity", "logP", "zeta_mV", "dose_relative",
              "apoe3_expression", "bbb_tightness", "inflammation"}
WeightFields == {"w_size", "w_aff", "w_lip", "w_charge", "w_int", "w_inf",
                 "w_dose", "w_carrier"}
ScoreNames == {"size_score", "affinity_score", "lipophilicity_score",
               "charge_score", "integrity_score", "inflammation_score",
               "dose_score", "carrier_score"}

\* the float literals of bbb_model.py
SizeFloor == Lit(1, 10)
SizeMu == log10(Lit(50, 1))
SizeSigma == Lit(1, 4)
LipMu == Lit(3, 1)
LipSigma == Lit(1, 1)
MaxAbs == Lit(40, 1)
DoseK == Lit(2, 1)
InflamPower == Lit(7, 10)
MinusHalf == Lit(-1, 2)
Offset == Lit(2, 1)

\* max(0.0, min(1.0, v))
Clamp01(v) == Max2(0, Min2(One, v))

\* an exception raised while v was computed passes through the caller
Propagate(v, then) == IF v = OverflowError \/ v = ValueError THEN v ELSE then

GaussianOf(sq) == Propagate(sq, exp(FMul(MinusHalf, sq)))

gaussian(x, mu, sigma) == GaussianOf(PowSquare(FDiv(FSub(x, mu), sigma)))

ClampScore(g) == Propagate(g, Clamp01(g))

\* size_transfer_function without the floor of its input
size_nofloor(size_nm) ==
  Propagate(log10(size_nm),
            ClampScore(gaussian(log10(size_nm), SizeMu, SizeSigma)))

size_transfer_function(size_nm) ==
  LET size  == Max2(size_nm, SizeFloor)
      x     == log10(size)
      mu    == SizeMu
      sigma == SizeSigma
  IN Propagate(x, ClampScore(gaussian(x, mu, sigma)))

lipophilicity_transfer_function(logP) ==
  LET score == gaussian(logP, LipMu, LipSigma)
  IN ClampScore(score)

\* charge_transfer_function without abs(): a negative potential counts as 0
charge_noabs(zeta_mV) ==
  Clamp01(FSub(One, FDiv(Min2(Max2(zeta_mV, 0), MaxAbs), MaxAbs)))

ChargeVal(a, max_abs) == FSub(One, FDiv(Min2(Max2(a, 0), max_abs), max_abs))

charge_transfer_function(zeta_mV) ==
  LET max_abs == MaxAbs
      val     == ChargeVal(Abs(zeta_mV), max_abs)
  IN Clamp01(val)

\* integrity_transfer_function without the clamp of its input
integrity_noclamp(bbb_tightness) == FSub(One, bbb_tightness)

\* integrity_transfer_function without the inversion
integrity_notinverted(bbb_tightness) == Clamp01(bbb_tightness)

integrity_transfer_function(bbb_tightness) ==
  LET tight == Clamp01(bbb_tightness)
  IN FSub(One, tight)

DoseRatio(dose, K) == FDiv(dose, FAdd(K, dose))

dose_transfer_function(dose_relative) ==
  LET dose == Max2(0, dose_relative)
      K    == DoseK
  IN Clamp01(DoseRatio(dose, K))

inflammation_transfer_function(inflammation) ==
  LET inflam == Clamp01(inflammation)
  IN Pow(inflam, InflamPower)

LogisticOf(e) == Propagate(e, FDiv(One, FAdd(One, e)))

logistic(z) == LogisticOf(exp(FNeg(z)))

\* the weighted sum with w_int and w_inf on each other's factor
WeightedSum_swapped(p, c) ==
  FSub(FAdd(FAdd(FAdd(FAdd(FAdd(FAdd(FAdd(
         FMul(p.w_size, c.size_score),
         FMul(p.w_aff, c.affinity_score)),
         FMul(p.w_lip, c.lipophilicity_score)),
         FMul(p.w_charge, c.charge_score)),
         FMul(p.w_inf, c.integrity_score)),
         FMul(p.w_int, c.inflammation_score)),
         FMul(p.w_dose, c.dose_score)),
         FMul(p.w_carrier, c.carrier_score)),
       Offset)

\* the weighted sum of compute_bbb_probability, left to right as written
WeightedSum(p, c) ==
  FSub(FAdd(FAdd(FAdd(FAdd(FAdd(FAdd(FAdd(
         FMul(p.w_size, c.size_score),
         FMul(p.w_aff, c.affinity_score)),
         FMul(p.w_lip, c.lipophilicity_score)),
         FMul(p.w_charge, c.charge_score)),
         FMul(p.w_int, c.integrity_score)),
         FMul(p.w_inf, c.inflammation_score)),
         FMul(p.w_dose, c.dose_score)),
         FMul(p.w_carrier, c.carrier_score)),
       Offset)

\* the eight factor scores, in the order the code computes them
FactorScores(p) ==
  [ size_score          |-> size_transfer_function(p.size_nm),
    affinity_score      |-> Clamp01(p.apoe3_affinity),
    lipophilicity_score |-> lipophilicity_transfer_function(p.logP),
    charge_score        |-> charge_transfer_function(p.zeta_mV),
    integrity_score     |-> integrity_transfer_function(p.bbb_tightness),
    inflammation_score  |-> inflammation_transfer_function(p.inflammation),
    dose_score          |-> dose_transfer_function(p.dose_relative),
    carrier_score       |-> Clamp01(p.apoe3_expression) ]

\* the outcome of a call that an exception ended
Raised(e) == [status |-> IF e = ValueError THEN "ValueError" ELSE "OverflowError"]

\* what a call that got as far as logistic(Z) returns
Returned(c, Z, prob) ==
  IF prob = OverflowError THEN Raised(prob)
  ELSE [status |-> "ok", prob |-> prob,
        components |-> [k \in ScoreNames \cup {"Z"} |-> IF k = "Z" THEN Z ELSE c[k]]]

Squash(c, Z) == Returned(c, Z, logistic(Z))

Aggregate(p, c) ==
  IF \E k \in ScoreNames : c[k] = ValueError THEN Raised(ValueError)
  ELSE IF \E k \in ScoreNames : c[k] = OverflowError THEN Raised(OverflowError)
  ELSE Squash(c, WeightedSum(p, c))

\* compute_bbb_probability with Z kept in a module-level accumulator that the
\* next call does not reset
compute_bbb_probability_carried(p) ==
  IF result.status = "ok" /\ Aggregate(p, FactorScores(p)).status = "ok"
  THEN Squash(FactorScores(p),
              FAdd(result.components["Z"], WeightedSum(p, FactorScores(p))))
  ELSE Aggregate(p, FactorScores(p))

\* the outcome of one call: the returned pair, or the exception that ended it
compute_bbb_probability(p) == Aggregate(p, FactorScores(p))

\* ---------------------------------------------------------------------
\* The caller (app.py): the record it builds and the calls it makes
\* ---------------------------------------------------------------------
\* the sliders' initial values
DefaultParams ==
  [ size_nm          |-> Lit(80, 1),
    apoe3_affinity   |-> Lit(6, 10),
    logP             |-> Lit(25, 10),
    zeta_mV          |-> Lit(-5, 1),
    dose_relative    |-> Lit(3, 1),
    apoe3_expression |-> Lit(7, 10),
    bbb_tightness    |-> Lit(9, 10),
    inflammation     |-> Lit(2, 10),
    w_size           |-> Lit(2, 1),
    w_aff            |-> Lit(25, 10),
    w_lip            |-> Lit(1, 1),
    w_charge         |-> Lit(1, 1),
    w_int            |-> Lit(-2, 1),
    w_inf            |-> Lit(5, 10),
    w_dose           |-> Lit(15, 10),
    w_carrier        |-> Lit(2, 1) ]

ZeroWeights(p) == [k \in DOMAIN p |-> IF k \in WeightFields THEN 0 ELSE p[k]]

\* the records a run starts from, and the values a field is set to
StartRecords == {DefaultParams, ZeroWeights(DefaultParams)}
RawValues == {-MaxFloat}
WeightValues == {-MaxFloat, 0, Lit(4, 1)}
\* ... including the slider's initial value, to move it back
ValuesOf(f) ==
  (IF f \in RawFields THEN RawValues ELSE WeightValues) \cup {DefaultParams[f]}

NoResult == [status |-> "none"]
NoCall == [name |-> "none"]

TransferNames == {"size", "lipophilicity", "charge", "integrity", "dose",
                  "inflammation"}

\* a transfer function called on its own (app.py sweeps size_transfer_function)
Transfer(name, x) ==
  CASE name = "size"          -> size_transfer_function(x)
    [] name = "lipophilicity" -> lipophilicity_transfer_function(x)
    [] name = "charge"        -> charge_transfer_function(x)
    [] name = "integrity"     -> integrity_transfer_function(x)
    [] name = "dose"          -> dose_transfer_function(x)
    [] name = "inflammation"  -> inflammation_transfer_function(x)

Init ==
  /\ params \in StartRecords
  /\ result = NoResult
  /\ first = NoResult
  /\ edits = 0
  /\ fn = NoCall

\* compute_bbb_probability(params) on the record as it stands; the first call
\* of a run is remembered with the record it was given
Run ==
  /\ result' = compute_bbb_probability(params)
  /\ first' = IF first = NoResult
              THEN [status |-> "called", params |-> params, outcome |-> result']
              ELSE first
  /\ UNCHANGED <<params, edits, fn>>

\* a slider moves: the record is rebuilt with that one field changed and
\* evaluated
Evaluate(f, v) ==
  /\ first # NoResult
  /\ edits < MaxEdits
  /\ v # params[f]
  /\ params' = [params EXCEPT ![f] = v]
  /\ result' = compute_bbb_probability(params')
  /\ edits' = edits + 1
  /\ UNCHANGED <<first, fn>>

Next ==
  \/ Run
  \/ \E f \in RawFields \cup WeightFields : \E v \in ValuesOf(f) : Evaluate(f, v)

Spec == Init /\ [][Next]_vars

\* one transfer function applied to one float
CallTransfer ==
  /\ fn = NoCall
  /\ \E name \in TransferNames : \E x \in Floats :
       fn' = [name |-> name, x |-> x, out |-> Transfer(name, x)]
  /\ UNCHANGED <<params, result, first, edits>>

\* compute_bbb_probability applied to a record whose one raw field is any float
CallCompute ==
  /\ fn = NoCall
  /\ \E f \in RawFields : \E x \in Floats :
       fn' = [name |-> "compute", field |-> f, x |-> x,
              out |-> compute_bbb_probability([params EXCEPT ![f] = x])]
  /\ UNCHANGED <<params, result, first, edits>>

NextFn == CallTransfer \/ CallCompute

InitFn == Init /\ params = DefaultParams

SpecFn == InitFn /\ [][NextFn]_vars

\* ---------------------------------------------------------------------
\* The claims
\* ---------------------------------------------------------------------
InUnit(v) == 0 <= v /\ v <= One
IsError(v) == v = OverflowError \/ v = ValueError

\* C1: every factor score that compute_bbb_probability returns, and every
\* value a transfer function returns when called on its own, lies in [0,1],
\* whatever float the raw input is (negative, zero, the largest float).
C1_ScoresInUnitInterval ==
  /\ fn.name \in TransferNames => (IsError(fn.out) \/ InUnit(fn.out))
  /\ (fn.name = "compute" /\ fn.out.status = "ok")
       => \A k \in ScoreNames : InUnit(fn.out.components[k])

C1_Witness ==
  /\ fn.name = "compute"
  /\ fn.field = "bbb_tightness"
  /\ fn.x = MaxFloat
  /\ fn.out.status = "ok"
  /\ fn.out.components["integrity_score"] = 0

\* C2: the probability a call returns is strictly between 0 and 1.
C2_ProbabilityInOpenInterval ==
  result.status = "ok" => (0 < result.prob /\ result.prob < One)

\* C3: every call returns a value; none ends in an exception.
C3_Total == result.status \in {"none", "ok"}

\* the weight and the score of each factor, by the factor's position
WeightOf ==
  <<"w_size", "w_aff", "w_lip", "w_charge", "w_int", "w_inf", "w_dose", "w_carrier">>
ScoreOf ==
  <<"size_score", "affinity_score", "lipophilicity_score", "charge_score",
    "integrity_score", "inflammation_score", "dose_score", "carrier_score">>

\* the sum of the first n products weight * score, added one at a time
RECURSIVE SumOfProducts(_, _, _)
SumOfProducts(p, c, n) ==
  IF n = 1 THEN FMul(p[WeightOf[1]], c[ScoreOf[1]])
  ELSE FAdd(SumOfProducts(p, c, n - 1), FMul(p[WeightOf[n]], c[ScoreOf[n]]))

C6_TighterReducesProbability ==
  (fn.name = "compute" /\ fn.field = "bbb_tightness" /\ InUnit(fn.x)
     /\ fn.out.status = "ok")
    => \A t2 \in Floats :
         (fn.x < t2 /\ t2 <= One)
           => compute_bbb_probability([params EXCEPT !.bbb_tightness = t2]).prob
                <= fn.out.prob

\* C7: charge_transfer_function(z) = 1 - min(|z|, 40)/40: 1.0 at 0, 0.0 for
\* every |z| >= 40, and the same value for z and -z.
C7_ChargeTriangle ==
  fn.name = "charge" =>
    /\ fn.out = FSub(One, FDiv(Min2(Abs(fn.x), Lit(40, 1)), Lit(40, 1)))
    /\ fn.x = 0 => fn.out = One
    /\ Abs(fn.x) >= Lit(40, 1) => fn.out = 0
    /\ fn.out = charge_transfer_function(-fn.x)

C7_Witness == fn.name = "charge" /\ fn.x = Lit(-40, 1) /\ fn.out = 0

\* C8: dose_transfer_function is 0.0 for a dose <= 0, dose/(2.0 + dose) for a
\* dose >= 0, and strictly increasing over the doses >= 0.
C8_DoseStrictlyIncreasing ==
  fn.name = "dose" =>
    /\ fn.x <= 0 => fn.out = 0
    /\ fn.x >= 0 => fn.out = FDiv(fn.x, FAdd(Lit(2, 1), fn.x))
    /\ \A y \in Floats :
         (0 <= y /\ y < fn.x) => dose_transfer_function(y) < fn.out

\* the integrity score of every float
IntegrityTable == [y \in Floats |-> integrity_transfer_function(y)]

\* C9: integrity_transfer_function is 0.0 at 1.0 and 1.0 at 0.0, never
\* increases as its input grows, and treats an input outside [0,1] as the
\* nearer end of [0,1].
C9_IntegrityDecreasing ==
  fn.name = "integrity" =>
    /\ fn.x = One => fn.out = 0
    /\ fn.x = 0 => fn.out = One
    /\ \A y \in Floats : y < fn.x => IntegrityTable[y] >= fn.out
    /\ fn.x < 0 => fn.out = One
    /\ fn.x > One => fn.out = 0

C9_Witness == fn.name = "integrity" /\ fn.x = Lit(1, 4) /\ fn.out = Lit(3, 4)

\* C10: size_transfer_function never faults, gives every size <= 0.1 the score
\* of 0.1, and gives 50.0 the score 1.0 exactly.
C10_SizeFloor ==
  fn.name = "size" =>
    /\ ~IsError(fn.out)
    /\ fn.x <= Lit(1, 10) => fn.out = size_transfer_function(Lit(1, 10))
    /\ fn.x = Lit(50, 1) => fn.out = One

C10_Witness ==
  /\ fn.name = "size"
  /\ fn.x = -MaxFloat
  /\ fn.out = size_transfer_function(Lit(1, 10))

====
